---- MODULE Spec2Model ----
(***************************************************************************)
(* The annotation callbacks of the signal annotator (src/callbacks.py):    *)
(* handle_annotation, update_table, manage_history and                      *)
(* sync_table_deletion, over the stores declared in src/layout.py.          *)
(*                                                                          *)
(* Python values are written as follows.                                    *)
(*   None            <<>>            (and a value v that may be None, <<v>>)*)
(*   dict            a function over its string keys ({} is <<>>)           *)
(*   list            a sequence                                             *)
(* table-store and annotation-store are set by the layout and every writer  *)
(* returns a dict, so they are held unwrapped; the `is None` defaults of    *)
(* callbacks.py:320-330 and 538-539 are never taken for them.               *)
(*                                                                          *)
(* A callback reads its Input/State props when it runs and writes its       *)
(* Outputs in the same step.  A write to a prop triggers every other        *)
(* callback that declares the prop as an Input (the decorators), whether or *)
(* not the value changed; `pending` holds the callbacks so triggered.  User *)
(* events are serialized: one is dispatched when the chain of the previous  *)
(* one has settled.                                                         *)
(***************************************************************************)
EXTENDS Integers, Sequences, FiniteSets, TLC

VARIABLES
    selected_signal,    \* signal-dropdown.value: None or <<index>>
    table_store,        \* table-store.data: dict str(index) -> list of rows
    annotation_store,   \* annotation-store.data: dict
    history_store,      \* history-store.data: None or <<[past, present, future]>>
    grid_data,          \* complex-table.data: list of rows
    grid_prev,          \* complex-table.data_previous: None or <<list>>
    pending,            \* callbacks triggered and not yet run
    ctx,                \* the callback that ran last: its triggered_id, the
                        \* clickData it was given and the return it took
    rt,                 \* round-trip observer: phase and the stores it started from
    download,           \* download-data-file.data: None or <<file>>
    figure,             \* main-plot.figure: dict
    inflight,           \* requests dispatched to the server and not yet answered
    peak_editor,        \* editor state of the one-mark variant
    peak_table,         \* rows committed by the one-mark variant
    done_signals,       \* done-signals-store.data: list of indices
    dropdown_options    \* signal-dropdown.options: list of {label, value}

vars == <<selected_signal, table_store, annotation_store, history_store,
          grid_data, grid_prev, pending, ctx, rt,
          download, figure, inflight, peak_editor, peak_table,
          done_signals, dropdown_options>>

\* What the annotation callbacks of the three-mark variant leave alone.
desk == <<download, figure, inflight, peak_editor, peak_table,
          done_signals, dropdown_options>>

-----------------------------------------------------------------------------
(* Bounds and data *)

\* Frames a history may hold in past and future together.
MaxHist == 4

\* The `duration` argument of the program.
Duration == 2

\* The indices of signals_data: one recording.
Signals == {0}

\* signals_data[n]["ts"] and len(signals_data[n]["signals"]).
SignalTs(n) == n
SignalLen(n) == IF n = 0 THEN (2 * Duration) + 1 ELSE 1

\* The points of the plot a click can land on: x is the time, y the amplitude.
ClickPoints == { [x |-> 0, y |-> 4], [x |-> 1, y |-> 3], [x |-> 2, y |-> 5] }

\* Confidence labels of the grid's dropdown.
ConfLabels == { "Sure" }

None == <<>>
Some(v) == <<v>>
EmptyDict == <<>>

\* dict `d` with d[k] = v
DictSet(d, k, v) == [x \in (DOMAIN d) \cup {k} |-> IF x = k THEN v ELSE d[x]]

\* str(selected_signal)
Str(n) == ToString(n)

-----------------------------------------------------------------------------
(* Layout: the initial data of the stores *)

LayoutAnnotation ==
    [activeLabel |-> None, j_samp |-> None, j_amp |-> None,
     preview_samp |-> None, preview_amp |-> None, modeActive |-> FALSE]

ResetAnnotation(active) ==
    [modeActive |-> active, clickCount |-> 0,
     i_samp |-> None, i_amp |-> None,
     j_samp |-> None, j_amp |-> None,
     k_samp |-> None, k_amp |-> None]

-----------------------------------------------------------------------------
(* handle_annotation *)

\* sample_index_float of a click at time x on recording n.  The quotient is
\* exact for the recordings above.
SampleIndex(n, x) ==
    LET num_samples == SignalLen(n)
        delta_sec   == x - SignalTs(n)
    IN  IF num_samples > 1
        THEN IF Duration # 0 THEN (delta_sec * (num_samples - 1)) \div Duration ELSE 0
        ELSE delta_sec

\* A row whose height is taken from the first mark instead of the second.
NewRowHeightFromI(a) ==
    [i |-> a.i_samp[1], j |-> a.j_samp[1], k |-> a.k_samp[1],
     width  |-> a.k_samp[1] - a.i_samp[1],
     height |-> a.i_amp[1] - a.k_amp[1],
     i_conf |-> "", j_conf |-> "", k_conf |-> ""]

NewRow(a) ==
    [i |-> a.i_samp[1], j |-> a.j_samp[1], k |-> a.k_samp[1],
     width  |-> a.k_samp[1] - a.i_samp[1],
     height |-> a.j_amp[1] - a.k_amp[1],
     i_conf |-> "", j_conf |-> "", k_conf |-> ""]

\* annot_state after the click is stored under the role of clickCount.
PlaceMark(a, samp, amp) ==
    LET seq == a.clickCount
        b   == IF seq = 0 THEN [a EXCEPT !.i_samp = Some(samp), !.i_amp = Some(amp)]
               ELSE IF seq = 1 THEN [a EXCEPT !.j_samp = Some(samp), !.j_amp = Some(amp)]
               ELSE IF seq = 2 THEN [a EXCEPT !.k_samp = Some(samp), !.k_amp = Some(amp)]
               ELSE a
    IN  [b EXCEPT !.clickCount = seq + 1]

\* annot_state.get("modeActive")
ModeActive(a) == IF "modeActive" \in DOMAIN a THEN a.modeActive ELSE FALSE

\* Add Complex that only switches the mode on and keeps the marks.
BeginComplexKeepsMarks(annot_state) == DictSet(annot_state, "modeActive", TRUE)

\* Add Complex that switches on the value the layout gave the store.
BeginComplexFromLayout(annot_state) == DictSet(LayoutAnnotation, "modeActive", TRUE)

\* (A) Add Complex: the editor restarts, whatever it held.
BeginComplex(annot_state) == ResetAnnotation(TRUE)

\* A finalisation that appends the row and keeps the three marks.
FinalizeKeepsMarks(placed, table_data, str_idx) ==
    [annot  |-> placed,
     table  |-> DictSet(table_data, str_idx,
                        Append(table_data[str_idx], NewRow(placed))),
     raised |-> FALSE]

\* A finalisation that always appends to the first recording.
FinalizeFirstRecording(placed, table_data, str_idx) ==
    [annot  |-> ResetAnnotation(FALSE),
     table  |-> DictSet(table_data, "0",
                        Append(IF "0" \in DOMAIN table_data
                               THEN table_data["0"] ELSE <<>>,
                               NewRow(placed))),
     raised |-> FALSE]

\* A finalisation that puts the new row first.
FinalizePrepends(placed, table_data, str_idx) ==
    [annot  |-> ResetAnnotation(FALSE),
     table  |-> DictSet(table_data, str_idx,
                        <<NewRow(placed)>> \o table_data[str_idx]),
     raised |-> FALSE]

\* Once i, j, k are placed: the row is appended and the editor reset.
Finalize(placed, table_data, str_idx) ==
    [annot  |-> ResetAnnotation(FALSE),
     table  |-> DictSet(table_data, str_idx,
                        Append(table_data[str_idx], NewRow(placed))),
     raised |-> FALSE]

\* The callback: [annot, table, raised]; raised is the KeyError of
\* annot_state["clickCount"], after which Dash leaves the outputs as they are.
handle_annotation(trigger_id, click, selected, annot_state, table_data) ==
    IF selected = None
    THEN [annot |-> annot_state, table |-> table_data, raised |-> FALSE]
    ELSE
      LET str_idx == Str(selected[1])
          table1  == IF str_idx \in DOMAIN table_data
                     THEN table_data ELSE DictSet(table_data, str_idx, <<>>)
      IN  IF trigger_id = "add-complex-btn"
          THEN [annot |-> BeginComplex(annot_state), table |-> table1,
                raised |-> FALSE]
          ELSE IF trigger_id = "main-plot" /\ ModeActive(annot_state) /\ click # None
          THEN IF "clickCount" \notin DOMAIN annot_state
               THEN [annot |-> annot_state, table |-> table_data, raised |-> TRUE]
               ELSE
                 LET placed == PlaceMark(annot_state,
                                         SampleIndex(selected[1], click[1].x),
                                         click[1].y)
                 IN  IF placed.clickCount = 3
                     THEN Finalize(placed, table1, str_idx)
                     ELSE [annot |-> placed, table |-> table1, raised |-> FALSE]
          ELSE [annot |-> annot_state, table |-> table1, raised |-> FALSE]

-----------------------------------------------------------------------------
(* update_table *)

update_table(table_data, selected) ==
    IF table_data = EmptyDict \/ selected = None THEN <<>>
    ELSE IF Str(selected[1]) \notin DOMAIN table_data THEN <<>>
    ELSE table_data[Str(selected[1])]

-----------------------------------------------------------------------------
(* manage_history *)

Frame(t, a) == [table |-> t, annot |-> a]

\* The history the callback works on: the store's, or the default of an
\* unset store.
WorkingHistory(history) ==
    IF history = None
    THEN [past |-> <<>>, present |-> Frame(EmptyDict, EmptyDict), future |-> <<>>]
    ELSE history[1]

Last(s) == s[Len(s)]
Front(s) == SubSeq(s, 1, Len(s) - 1)

\* The three outputs of a return, and the return taken.
Outputs(h, frame, branch) ==
    [history |-> Some(h), table |-> frame.table, annot |-> frame.annot,
     branch |-> branch]

\* A no-change return that drops the frames kept for Redo.
return_no_change_clears_future(h, branch) ==
    Outputs([h EXCEPT !.future = <<>>], h.present, branch)

\* return_no_change(): the history and its present, as they are.
return_no_change(h, branch) == Outputs(h, h.present, branch)

\* An Undo that forgets the present it leaves.
UndoStepForgets(h) ==
    [past    |-> Front(h.past),
     present |-> Last(h.past),
     future  |-> h.future]

\* Undo with a non-empty past.
UndoStep(h) ==
    [past    |-> Front(h.past),
     present |-> Last(h.past),
     future  |-> Append(h.future, h.present)]

\* A Redo that takes the frame undone first instead of the one undone last.
RedoStepTakesOldest(h) ==
    [past    |-> Append(h.past, h.present),
     present |-> Head(h.future),
     future  |-> Tail(h.future)]

\* Redo with a non-empty future.
RedoStep(h) ==
    [past    |-> Append(h.past, h.present),
     present |-> Last(h.future),
     future  |-> Front(h.future)]

\* A record that keeps the frames Undo had moved to future.
RecordStepKeepsFuture(h, table_data, annot_data) ==
    [past    |-> Append(h.past, h.present),
     present |-> Frame(table_data, annot_data),
     future  |-> h.future]

\* A record that pushes the old present and keeps it as present.
RecordStepKeepsPresent(h, table_data, annot_data) ==
    [past    |-> Append(h.past, h.present),
     present |-> h.present,
     future  |-> <<>>]

\* A store write that differs from present.
RecordStep(h, table_data, annot_data) ==
    [past    |-> Append(h.past, h.present),
     present |-> Frame(table_data, annot_data),
     future  |-> <<>>]

\* A comparison that looks at the table only: a frame per committed row.
DiffersTableOnly(h, table_data, annot_data) == table_data # h.present.table

\* A comparison that takes every store write for a new mutation.
DiffersAlways(h, table_data, annot_data) == TRUE

\* table_data != present.get("table") or annot_data != present.get("annot")
Differs(h, table_data, annot_data) ==
    table_data # h.present.table \/ annot_data # h.present.annot

manage_history(table_data, annot_data, triggered_id, history) ==
    LET h == WorkingHistory(history)
    IN  IF triggered_id = "undo-btn"
        THEN IF Len(h.past) > 0
             THEN Outputs(UndoStep(h), UndoStep(h).present, "undo")
             ELSE return_no_change(h, "undo_no_change")
        ELSE IF triggered_id = "redo-btn"
        THEN IF Len(h.future) > 0
             THEN Outputs(RedoStep(h), RedoStep(h).present, "redo")
             ELSE return_no_change(h, "redo_no_change")
        ELSE IF Differs(h, table_data, annot_data)
             THEN Outputs(RecordStep(h, table_data, annot_data),
                          Frame(table_data, annot_data), "record")
             ELSE return_no_change(h, "no_change")

-----------------------------------------------------------------------------
(* sync_table_deletion *)

\* A grid sync without the guard on the selection: str(None) is the key.
sync_table_deletion_unguarded(curr_data, prev_data, selected, table_data) ==
    IF prev_data = Some(curr_data) THEN table_data
    ELSE DictSet(table_data,
                 IF selected = None THEN "None" ELSE Str(selected[1]),
                 curr_data)

\* A grid sync that returns a table holding the selected recording only.
sync_table_deletion_drops_others(curr_data, prev_data, selected, table_data) ==
    IF selected = None THEN table_data
    ELSE IF prev_data = Some(curr_data) THEN table_data
    ELSE DictSet(EmptyDict, Str(selected[1]), curr_data)

sync_table_deletion(curr_data, prev_data, selected, table_data) ==
    IF selected = None THEN table_data
    ELSE IF prev_data = Some(curr_data) THEN table_data
    ELSE DictSet(table_data, Str(selected[1]), curr_data)

-----------------------------------------------------------------------------
(* export_table *)

\* Values of export-format-dropdown ("excel" is a value the layout's dropdown
\* does not offer; None is the cleared dropdown) and of export-filename-input.
ExportFormats == {Some("csv"), Some("excel"), None}
ExportNames == {Some("x"), Some(""), None}

\* `not base_name`
Falsy(name) == name = None \/ name = Some("")

\* An export that writes the file whatever the format.
export_table_any_format(n_clicks, table_data, export_format, base_name) ==
    IF Len(table_data) = 0 THEN None
    ELSE Some([filename |-> <<IF Falsy(base_name) THEN "annotations"
                              ELSE base_name[1], ".csv">>,
               content  |-> table_data])

\* The callback: None for dash.no_update, or the file sent.  The content of
\* the file is the csv of the rows, written here as the rows.
export_table(n_clicks, table_data, export_format, base_name) ==
    IF Len(table_data) = 0 THEN None
    ELSE IF export_format = Some("csv")
    THEN Some([filename |-> <<IF Falsy(base_name) THEN "annotations"
                              ELSE base_name[1], ".csv">>,
               content  |-> table_data])
    ELSE None

-----------------------------------------------------------------------------
(* Dispatch: which callbacks a callback's outputs trigger (the Input lists  *)
(* of the decorators; update_plot writes only the figure and is left out).  *)
(* update_table and sync_table_deletion trigger each other, so a chain     *)
(* never empties `pending`; it has settled when every further run would     *)
(* write the values the props already hold.                                 *)

Triggers(callback) ==
    IF callback = "handle_annotation" THEN {"update_table", "manage_history"}
    ELSE IF callback = "update_table" THEN {"sync_table_deletion"}
    ELSE IF callback = "manage_history" THEN {"update_table"}
    ELSE IF callback = "sync_table_deletion" THEN {"update_table", "manage_history"}
    ELSE {}

Ctx(callback, triggered_id, click, branch) ==
    [callback |-> callback, triggered_id |-> triggered_id, click |-> click,
     branch |-> branch]

\* No callback of the chain would change a value any more.
Settled ==
    LET h == manage_history(table_store, annotation_store, "table-store", history_store)
    IN  /\ update_table(table_store, selected_signal) = grid_data
        /\ sync_table_deletion(grid_data, grid_prev, selected_signal, table_store)
             = table_store
        /\ h.history = history_store
        /\ h.table = table_store
        /\ h.annot = annotation_store

\* User events are serialized: one is dispatched when the chain of the
\* previous one has settled, and the callbacks it triggers replace that chain.
Quiescent == pending = {} \/ Settled

HistLen == LET h == WorkingHistory(history_store) IN Len(h.past) + Len(h.future)

\* The recordings the dropdown lists, and its options as create_layout
\* builds them.  A label is the list of its pieces: the formatted timestamp
\* of the recording, behind the pieces put before it.
ListedSignals == {0, 1, 2, 3}

LayoutLabel(n) == << "ts" \o Str(SignalTs(n)) >>

LayoutOptions == [n \in 1 .. Cardinality(ListedSignals) |->
                    [label |-> LayoutLabel(n - 1), value |-> n - 1]]

\* The one-mark editor before anything is done: Idle, no mark held.
PeakIdle == [state |-> "Idle", mark |-> None]

RtOff == [phase |-> "off", table |-> EmptyDict, annot |-> EmptyDict]

-----------------------------------------------------------------------------
(* Initial state: the layout's values; update_table's initial call returns  *)
(* [] for the empty table, the other callbacks prevent their initial call   *)

Init ==
    /\ selected_signal = None
    /\ table_store = EmptyDict
    /\ annotation_store = LayoutAnnotation
    /\ history_store = None
    /\ grid_data = <<>>
    /\ grid_prev = None
    /\ pending = {}
    /\ ctx = Ctx("update_table", "table-store", None, "initial")
    /\ rt = RtOff
    /\ download = None
    /\ figure = EmptyDict
    /\ inflight = {}
    /\ peak_editor = PeakIdle
    /\ peak_table = <<>>
    /\ done_signals = <<>>
    /\ dropdown_options = LayoutOptions

-----------------------------------------------------------------------------
(* User events *)

\* The dropdown changes; only update_plot has it as an Input.
SelectSignal(v) ==
    /\ Quiescent
    /\ v # selected_signal
    /\ selected_signal' = v
    /\ pending' = {}
    /\ ctx' = Ctx("update_plot", "signal-dropdown", None, "")
    /\ UNCHANGED <<table_store, annotation_store, history_store, grid_data,
                   grid_prev>>

\* The return handle_annotation takes.
HandleAnnotationBranch(trigger_id, click, r) ==
    IF r.raised THEN "KeyError"
    ELSE IF selected_signal = None THEN "no_signal"
    ELSE IF trigger_id = "add-complex-btn" THEN "add_complex"
    ELSE IF ModeActive(annotation_store) /\ click # None
         THEN IF annotation_store.clickCount = 2 THEN "commit" ELSE "mark"
    ELSE "no_action"

\* clickData is read only by the run its own change triggers, so it is an
\* argument of the run instead of a variable.
RunHandleAnnotation(trigger_id, click) ==
    LET r == handle_annotation(trigger_id, click, selected_signal,
                               annotation_store, table_store)
    IN  /\ annotation_store' = r.annot
        /\ table_store' = r.table
        /\ ctx' = Ctx("handle_annotation", trigger_id, click,
                      HandleAnnotationBranch(trigger_id, click, r))
        /\ UNCHANGED <<selected_signal, history_store, grid_data, grid_prev>>
        /\ pending' = IF r.raised THEN {} ELSE Triggers("handle_annotation")

\* The button and the plot, while the history holds fewer than cap frames.
AddComplexUpTo(cap) ==
    /\ Quiescent
    /\ HistLen < cap
    /\ RunHandleAnnotation("add-complex-btn", None)

PlotClickUpTo(cap, p) ==
    /\ Quiescent
    /\ HistLen < cap
    /\ RunHandleAnnotation("main-plot", Some(p))

AddComplex == AddComplexUpTo(MaxHist)

PlotClick(p) == PlotClickUpTo(MaxHist, p)

PressHistory(button) ==
    LET r == manage_history(table_store, annotation_store, button, history_store)
    IN  /\ Quiescent
        /\ history_store' = r.history
        /\ table_store' = r.table
        /\ annotation_store' = r.annot
        /\ ctx' = Ctx("manage_history", button, None, r.branch)
        /\ UNCHANGED <<selected_signal, grid_data, grid_prev>>
        /\ pending' = Triggers("manage_history")

Undo == PressHistory("undo-btn")

Redo == PressHistory("redo-btn")

SyncBranch ==
    IF selected_signal = None THEN "no_signal"
    ELSE IF grid_prev' = Some(grid_data') THEN "unchanged"
    ELSE "replace"

RemoveAt(s, p) == SubSeq(s, 1, p - 1) \o SubSeq(s, p + 1, Len(s))

\* The grid's own edit: data_previous takes the old rows, data the new ones,
\* and sync_table_deletion runs on both.
GridChangeUpTo(cap, new_rows) ==
    /\ Quiescent
    /\ HistLen <= cap
    /\ grid_prev' = Some(grid_data)
    /\ grid_data' = new_rows
    /\ table_store' = sync_table_deletion(new_rows, Some(grid_data),
                                          selected_signal, table_store)
    /\ ctx' = Ctx("sync_table_deletion", "complex-table", None, SyncBranch)
    /\ UNCHANGED <<selected_signal, annotation_store, history_store>>
    /\ pending' = Triggers("sync_table_deletion")

GridChange(new_rows) == GridChangeUpTo(MaxHist, new_rows)

GridDeleteRowUpTo(cap, p) ==
    /\ p \in 1 .. Len(grid_data)
    /\ GridChangeUpTo(cap, RemoveAt(grid_data, p))

GridEditCellUpTo(cap, p, label) ==
    /\ p \in 1 .. Len(grid_data)
    /\ grid_data[p].j_conf # label
    /\ GridChangeUpTo(cap, [grid_data EXCEPT ![p].j_conf = label])

GridDeleteRow(p) == GridDeleteRowUpTo(MaxHist, p)

GridEditCell(p, label) == GridEditCellUpTo(MaxHist, p, label)

\* The Export button: export_table runs on the grid's rows; no callback has
\* download-data-file as an Input.
Export(export_format, base_name) ==
    LET r == export_table(1, grid_data, export_format, base_name)
    IN  /\ Quiescent
        /\ download' = IF r = None THEN download ELSE r
        /\ ctx' = [callback |-> "export_table", triggered_id |-> "export-btn",
                   click |-> None,
                   branch |-> IF r = None THEN "no_update" ELSE "download",
                   export_format |-> export_format, base_name |-> base_name]
        /\ UNCHANGED <<selected_signal, table_store, annotation_store,
                       history_store, grid_data, grid_prev, pending>>

-----------------------------------------------------------------------------
(* Triggered callbacks *)

RunUpdateTable ==
    /\ "update_table" \in pending
    /\ grid_data' = update_table(table_store, selected_signal)
    /\ ctx' = Ctx("update_table", "table-store", None, "")
    /\ UNCHANGED <<selected_signal, table_store, annotation_store, history_store,
                   grid_prev>>
    /\ pending' = (pending \ {"update_table"}) \cup Triggers("update_table")

RunSyncTableDeletion ==
    /\ "sync_table_deletion" \in pending
    /\ table_store' = sync_table_deletion(grid_data, grid_prev, selected_signal,
                                          table_store)
    /\ grid_data' = grid_data
    /\ grid_prev' = grid_prev
    /\ ctx' = Ctx("sync_table_deletion", "complex-table", None, SyncBranch)
    /\ UNCHANGED <<selected_signal, annotation_store, history_store>>
    /\ pending' = (pending \ {"sync_table_deletion"})
                    \cup Triggers("sync_table_deletion")

RunManageHistory ==
    LET r == manage_history(table_store, annotation_store, "table-store",
                            history_store)
    IN  /\ "manage_history" \in pending
        /\ history_store' = r.history
        /\ table_store' = r.table
        /\ annotation_store' = r.annot
        /\ ctx' = Ctx("manage_history", "table-store", None, r.branch)
        /\ UNCHANGED <<selected_signal, grid_data, grid_prev>>
        /\ pending' = (pending \ {"manage_history"}) \cup Triggers("manage_history")

-----------------------------------------------------------------------------
(* Specification *)

\* The values of the dropdown.
Selections == {None} \cup {Some(n) : n \in Signals}

Next ==
    \/ \E v \in Selections : SelectSignal(v) /\ UNCHANGED <<rt, desk>>
    \/ AddComplex /\ UNCHANGED <<rt, desk>>
    \/ \E p \in ClickPoints : PlotClick(p) /\ UNCHANGED <<rt, desk>>
    \/ Undo /\ UNCHANGED <<rt, desk>>
    \/ Redo /\ UNCHANGED <<rt, desk>>
    \/ \E p \in 1 .. Len(grid_data) : GridDeleteRow(p) /\ UNCHANGED <<rt, desk>>
    \/ \E p \in 1 .. Len(grid_data) : \E l \in ConfLabels :
          GridEditCell(p, l) /\ UNCHANGED <<rt, desk>>
    \/ RunUpdateTable /\ UNCHANGED <<rt, desk>>
    \/ RunSyncTableDeletion /\ UNCHANGED <<rt, desk>>
    \/ RunManageHistory /\ UNCHANGED <<rt, desk>>

Spec == Init /\ [][Next]_vars

-----------------------------------------------------------------------------
(* The round trip: a session of annotation commits, then Undo until past is *)
(* empty, then Redo until future is empty.  rt keeps the stores the round   *)
(* trip started from.                                                       *)

RoundTripBegin ==
    LET h == WorkingHistory(history_store)
    IN  /\ rt.phase = "off"
        /\ Quiescent
        /\ \E k \in DOMAIN table_store : Len(table_store[k]) > 0
        /\ ~ModeActive(annotation_store)
        /\ rt' = [phase |-> IF Len(h.past) = 0 THEN "redo" ELSE "undo",
                  table |-> table_store, annot |-> annotation_store]
        /\ UNCHANGED <<selected_signal, table_store, annotation_store,
                       history_store, grid_data, grid_prev, pending, ctx>>
        /\ UNCHANGED desk

\* One more Undo; the presses stop when this one has emptied past.
RoundTripUndo ==
    /\ rt.phase = "undo"
    /\ Undo
    /\ rt' = [rt EXCEPT !.phase =
                IF Len(WorkingHistory(history_store').past) = 0
                THEN "redo" ELSE "undo"]
    /\ UNCHANGED desk

RoundTripRedo ==
    /\ rt.phase = "redo"
    /\ Len(WorkingHistory(history_store).future) > 0
    /\ Redo
    /\ UNCHANGED <<rt, desk>>

RoundTripEnd ==
    /\ rt.phase = "redo"
    /\ Quiescent
    /\ Len(WorkingHistory(history_store).future) = 0
    /\ rt' = [rt EXCEPT !.phase = "done"]
    /\ UNCHANGED <<selected_signal, table_store, annotation_store,
                   history_store, grid_data, grid_prev, pending, ctx>>
    /\ UNCHANGED desk

NextRoundTrip ==
    \/ \E v \in Selections : rt.phase = "off" /\ SelectSignal(v) /\ UNCHANGED <<rt, desk>>
    \/ rt.phase = "off" /\ AddComplex /\ UNCHANGED <<rt, desk>>
    \/ \E p \in ClickPoints : rt.phase = "off" /\ PlotClick(p) /\ UNCHANGED <<rt, desk>>
    \/ RunUpdateTable /\ UNCHANGED <<rt, desk>>
    \/ RunSyncTableDeletion /\ UNCHANGED <<rt, desk>>
    \/ RunManageHistory /\ UNCHANGED <<rt, desk>>
    \/ RoundTripBegin
    \/ RoundTripUndo
    \/ RoundTripRedo
    \/ RoundTripEnd

SpecRoundTrip == Init /\ [][NextRoundTrip]_vars

-----------------------------------------------------------------------------
(* A session on two recordings, without Undo and Redo: the history only     *)
(* records.                                                                 *)

\* signals_data with a second recording (one sample, starting at 1).
SessionSignals == {0, 1}

SessionSelections == {None} \cup {Some(n) : n \in SessionSignals}

NextSession ==
    \/ \E v \in SessionSelections : SelectSignal(v) /\ UNCHANGED <<rt, desk>>
    \/ AddComplex /\ UNCHANGED <<rt, desk>>
    \/ \E p \in ClickPoints : PlotClick(p) /\ UNCHANGED <<rt, desk>>
    \/ \E p \in 1 .. Len(grid_data) : GridDeleteRow(p) /\ UNCHANGED <<rt, desk>>
    \/ \E p \in 1 .. Len(grid_data) : \E l \in ConfLabels :
          GridEditCell(p, l) /\ UNCHANGED <<rt, desk>>
    \/ RunUpdateTable /\ UNCHANGED <<rt, desk>>
    \/ RunSyncTableDeletion /\ UNCHANGED <<rt, desk>>
    \/ RunManageHistory /\ UNCHANGED <<rt, desk>>

SpecSession == Init /\ [][NextSession]_vars

-----------------------------------------------------------------------------
(* A run of commits on one recording: the recording is selected, then only  *)
(* the button and the plot are used.                                        *)

\* Frames the history of the run may hold.
MaxLog == 8

NextCommits ==
    \/ \E n \in Signals :
          selected_signal = None /\ SelectSignal(Some(n)) /\ UNCHANGED <<rt, desk>>
    \/ AddComplexUpTo(MaxLog) /\ UNCHANGED <<rt, desk>>
    \/ \E p \in ClickPoints : PlotClickUpTo(MaxLog, p) /\ UNCHANGED <<rt, desk>>
    \/ RunUpdateTable /\ UNCHANGED <<rt, desk>>
    \/ RunSyncTableDeletion /\ UNCHANGED <<rt, desk>>
    \/ RunManageHistory /\ UNCHANGED <<rt, desk>>

SpecCommits == Init /\ [][NextCommits]_vars

-----------------------------------------------------------------------------
(* A session with the tools beside the editor: the Export button.           *)

NextDesk ==
    \/ \E v \in Selections : SelectSignal(v) /\ UNCHANGED <<rt, desk>>
    \/ AddComplex /\ UNCHANGED <<rt, desk>>
    \/ \E p \in ClickPoints : PlotClick(p) /\ UNCHANGED <<rt, desk>>
    \/ RunUpdateTable /\ UNCHANGED <<rt, desk>>
    \/ RunSyncTableDeletion /\ UNCHANGED <<rt, desk>>
    \/ RunManageHistory /\ UNCHANGED <<rt, desk>>
    \/ \E f \in ExportFormats : \E b \in ExportNames :
          Export(f, b)
            /\ UNCHANGED <<rt, figure, inflight, peak_editor, peak_table,
                           done_signals, dropdown_options>>

SpecDesk == Init /\ [][NextDesk]_vars

-----------------------------------------------------------------------------
(* The one-mark variant.  The layout declares its confidence modal and its  *)
(* peakInProgress store; no callback of callbacks.py handles them, so the   *)
(* editor below is the one the specification describes: Idle, Armed, and    *)
(* PendingConfidence holding the mark that waits for its label.             *)

\* Rows the one-mark table may hold.
MaxPeaks == 2

\* Labels confirm_confidence may be given: none, the empty one, and labels
\* of the modal's dropdown.
PeakLabels == {None, Some(""), Some("Unsure"), Some("Sure")}

\* toggle_mode(): Idle <-> Armed.
toggle_mode(editor) ==
    IF editor.state = "Idle" THEN [editor EXCEPT !.state = "Armed"]
    ELSE IF editor.state = "Armed" THEN [editor EXCEPT !.state = "Idle"]
    ELSE editor

\* record_click(point): Armed with a recording selected, the mark waits for
\* its confidence; a no-op otherwise.
record_click(editor, selected, point) ==
    IF editor.state = "Armed" /\ selected # None
    THEN [state |-> "PendingConfidence",
          mark  |-> Some([index     |-> SampleIndex(selected[1], point.x),
                          amplitude |-> point.y])]
    ELSE editor

\* A confirmation that commits whatever the label.
confirm_confidence_ungated(editor, rows, label) ==
    IF editor.state = "PendingConfidence"
    THEN [editor |-> PeakIdle,
          rows   |-> Append(rows, [index      |-> editor.mark[1].index,
                                   amplitude  |-> editor.mark[1].amplitude,
                                   confidence |-> label])]
    ELSE [editor |-> editor, rows |-> rows]

\* confirm_confidence(label): from PendingConfidence with a non-empty label
\* the row is committed and the editor is Idle; a no-op otherwise.
confirm_confidence(editor, rows, label) ==
    IF editor.state = "PendingConfidence" /\ label # None /\ label # Some("")
    THEN [editor |-> PeakIdle,
          rows   |-> Append(rows, [index      |-> editor.mark[1].index,
                                   amplitude  |-> editor.mark[1].amplitude,
                                   confidence |-> label])]
    ELSE [editor |-> editor, rows |-> rows]

\* What a step of the one-mark editor leaves alone.
PeakFrame ==
    UNCHANGED <<selected_signal, table_store, annotation_store, history_store,
                grid_data, grid_prev, pending, rt, download, figure, inflight,
                done_signals, dropdown_options>>

PeakCtx(callback, label) == [callback |-> callback, label |-> label]

PeakToggle ==
    /\ peak_editor' = toggle_mode(peak_editor)
    /\ ctx' = PeakCtx("toggle_mode", None)
    /\ UNCHANGED peak_table
    /\ PeakFrame

PeakClick(point) ==
    /\ peak_editor' = record_click(peak_editor, selected_signal, point)
    /\ ctx' = PeakCtx("record_click", None)
    /\ UNCHANGED peak_table
    /\ PeakFrame

PeakConfirm(label) ==
    LET r == confirm_confidence(peak_editor, peak_table, label)
    IN  /\ Len(r.rows) <= MaxPeaks
        /\ peak_editor' = r.editor
        /\ peak_table' = r.rows
        /\ ctx' = PeakCtx("confirm_confidence", label)
        /\ PeakFrame

NextPeak ==
    \/ \E v \in Selections : SelectSignal(v) /\ UNCHANGED <<rt, desk>>
    \/ PeakToggle
    \/ \E p \in ClickPoints : PeakClick(p)
    \/ \E l \in PeakLabels : PeakConfirm(l)

SpecPeak == Init /\ [][NextPeak]_vars

-----------------------------------------------------------------------------
(* update_plot: the render pass.  Frequencies are counted in half hertz,    *)
(* the step of the two frequency inputs.                                    *)

\* sample_rate=250 (hertz); nyq = 0.5 * sampling_rate, in half hertz.
SampleRate == 250
HalfHertz(hertz) == 2 * hertz
Nyquist == HalfHertz(SampleRate) \div 2

\* The values update_plot takes when an input is empty: 2, 1.5 Hz, 10.0 Hz.
DefaultOrder == 2
DefaultLowcut == 3
DefaultHighcut == 20

\* Values of the filter inputs: empty, the layout's order 2, the layout's
\* 5.0 Hz, and 125.0 Hz, the Nyquist frequency.
FilterOrders == {None, Some(2)}
FilterCuts == {None, Some(10), Some(250)}

\* `not value` of a number input
Unset(value) == value = None \/ value = Some(0)

\* Whether sos_filter raises: butter refuses a band edge outside
\* 0 < Wn < 1 in every release, and a band with low >= high in the releases
\* that check it.
sos_filter_raises(order, lowcut, highcut) ==
    IF ~(0 < lowcut /\ lowcut < Nyquist /\ 0 < highcut /\ highcut < Nyquist)
    THEN {TRUE}
    ELSE IF lowcut >= highcut THEN {TRUE, FALSE}
    ELSE {FALSE}

\* The marks of annotation-store the figure shows as partial markers.
PartialMarks(annot_state) ==
    { m \in {"i", "j", "k"} :
        /\ annot_state # EmptyDict
        /\ (m \o "_samp") \in DOMAIN annot_state
        /\ (m \o "_amp") \in DOMAIN annot_state
        /\ annot_state[m \o "_samp"] # None
        /\ annot_state[m \o "_amp"] # None }

BlankFigure ==
    [blank |-> TRUE, selected |-> None, order |-> 0, lowcut |-> 0,
     highcut |-> 0, final |-> <<>>, partial |-> {}]

\* The Outputs of a render that writes the table store as well.
update_plot_writes_table(selected_value, table_data, annot_state, filter_order, lowcut, highcut, filter_raised) ==
    [raised  |-> FALSE,
     outputs |-> [figure |-> BlankFigure, table |-> EmptyDict]]

\* update_plot: whether it raised, and its Outputs, by name.  Its decorator
\* names one Output, the figure of main-plot.
update_plot(selected_value, table_data, annot_state, filter_order, lowcut, highcut, filter_raised) ==
    IF selected_value = None \/ selected_value[1] \notin Signals
    THEN [raised |-> FALSE, outputs |-> [figure |-> BlankFigure]]
    ELSE LET order == IF Unset(filter_order) THEN DefaultOrder
                      ELSE filter_order[1]
             low   == IF Unset(lowcut) THEN DefaultLowcut ELSE lowcut[1]
             high  == IF Unset(highcut) THEN DefaultHighcut ELSE highcut[1]
         IN  IF filter_raised
             THEN [raised |-> TRUE, outputs |-> [figure |-> BlankFigure]]
             ELSE [raised  |-> FALSE,
                   outputs |->
                     [figure |->
                        [blank |-> FALSE, selected |-> selected_value,
                         order |-> order, lowcut |-> low, highcut |-> high,
                         final |-> update_table(table_data, selected_value),
                         partial |-> PartialMarks(annot_state)]]]

\* The outcomes sos_filter may have in this render (FALSE when the render
\* returns before it filters).
FilterOutcomes(selected_value, filter_order, lowcut, highcut) ==
    IF selected_value = None \/ selected_value[1] \notin Signals
    THEN {FALSE}
    ELSE sos_filter_raises(
           IF Unset(filter_order) THEN DefaultOrder ELSE filter_order[1],
           IF Unset(lowcut) THEN DefaultLowcut ELSE lowcut[1],
           IF Unset(highcut) THEN DefaultHighcut ELSE highcut[1])

\* The value a prop holds after an answer: the Output of that name when the
\* callback did not raise and has one, the old value otherwise.
Written(r, name, old) ==
    IF ~r.raised /\ name \in DOMAIN r.outputs THEN r.outputs[name] ELSE old

\* The user sets the filter inputs: update_plot renders the props as they
\* are.
RunUpdatePlot(filter_order, lowcut, highcut) ==
    \E filter_raised \in FilterOutcomes(selected_signal, filter_order,
                                        lowcut, highcut) :
      LET r == update_plot(selected_signal, table_store, annotation_store,
                           filter_order, lowcut, highcut, filter_raised)
      IN  /\ figure' = Written(r, "figure", figure)
          /\ table_store' = Written(r, "table", table_store)
          /\ annotation_store' = Written(r, "annot", annotation_store)
          /\ history_store' = Written(r, "history", history_store)
          /\ ctx' = [callback |-> "update_plot",
                     triggered_id |-> "filter-inputs", click |-> None,
                     branch |-> IF r.raised THEN "raised" ELSE "figure",
                     filter_order |-> filter_order, lowcut |-> lowcut,
                     highcut |-> highcut]
          /\ UNCHANGED <<selected_signal, grid_data, grid_prev, pending>>

NextRender ==
    \/ \E v \in Selections : SelectSignal(v) /\ UNCHANGED <<rt, desk>>
    \/ AddComplex /\ UNCHANGED <<rt, desk>>
    \/ \E p \in ClickPoints : PlotClick(p) /\ UNCHANGED <<rt, desk>>
    \/ RunUpdateTable /\ UNCHANGED <<rt, desk>>
    \/ RunSyncTableDeletion /\ UNCHANGED <<rt, desk>>
    \/ RunManageHistory /\ UNCHANGED <<rt, desk>>
    \/ \E o \in FilterOrders : \E l \in FilterCuts : \E h \in FilterCuts :
          RunUpdatePlot(o, l, h)
            /\ UNCHANGED <<rt, download, inflight, peak_editor, peak_table,
                           done_signals, dropdown_options>>

SpecRender == Init /\ [][NextRender]_vars

-----------------------------------------------------------------------------
(* Callbacks on the threads of the server (run_server(threaded=True)).  The *)
(* browser sends a request with the Input and State values the props hold   *)
(* at that moment, the server answers each request on its own thread, and   *)
(* the browser writes the Outputs of an answer when it arrives: dispatch    *)
(* and answer are separate steps, and answers arrive in any order.  The     *)
(* user selects a recording and then uses the button and the plot only.     *)

\* Requests the server may be working on at once.
MaxInflight == 2

\* Snapshots the history records before the user stops annotating.
MaxThreadHist == 3

\* Rows committed before the user stops annotating.
MaxThreadRows == 1

\* The point of the plot the user clicks.
ThreadClicks == { [x |-> 1, y |-> 3] }

\* The request of a callback: the props its decorator names, as they are
\* now (None for those it does not name).
Request(callback, triggered_id, click) ==
    [callback     |-> callback,
     triggered_id |-> triggered_id,
     click        |-> click,
     selected     |-> IF callback = "manage_history"
                      THEN None ELSE selected_signal,
     annot        |-> IF callback \in {"handle_annotation", "manage_history"}
                      THEN annotation_store ELSE EmptyDict,
     table        |-> table_store,
     curr         |-> IF callback = "sync_table_deletion"
                      THEN grid_data ELSE <<>>,
     prev         |-> IF callback = "sync_table_deletion"
                      THEN grid_prev ELSE None,
     history      |-> IF callback = "manage_history"
                      THEN history_store ELSE None]

\* A callback is requested again only after its last request was answered.
Send(req) ==
    /\ Cardinality(inflight) < MaxInflight
    /\ \A other \in inflight : other.callback # req.callback
    /\ inflight' = inflight \cup {req}

\* The user presses the button or clicks the plot: handle_annotation is
\* requested.
DispatchAnnotation(triggered_id, click) ==
    /\ HistLen < MaxThreadHist
    /\ \A key \in DOMAIN table_store :
          Len(table_store[key]) < MaxThreadRows
    /\ Send(Request("handle_annotation", triggered_id, click))
    /\ UNCHANGED <<selected_signal, table_store, annotation_store,
                   history_store, grid_data, grid_prev, pending, ctx>>

\* A triggered callback is requested.
DispatchTriggered(callback) ==
    /\ callback \in pending
    /\ Send(Request(callback,
                    IF callback = "sync_table_deletion"
                    THEN "complex-table" ELSE "table-store",
                    None))
    /\ pending' = pending \ {callback}
    /\ UNCHANGED <<selected_signal, table_store, annotation_store,
                   history_store, grid_data, grid_prev, ctx>>

AnswerHandleAnnotation(req) ==
    LET r == handle_annotation(req.triggered_id, req.click, req.selected,
                               req.annot, req.table)
    IN  /\ req.callback = "handle_annotation"
        /\ annotation_store' = IF r.raised THEN annotation_store ELSE r.annot
        /\ table_store' = IF r.raised THEN table_store ELSE r.table
        /\ pending' = IF r.raised THEN pending
                      ELSE pending \cup Triggers("handle_annotation")
        /\ UNCHANGED <<selected_signal, history_store, grid_data, grid_prev>>

AnswerUpdateTable(req) ==
    /\ req.callback = "update_table"
    /\ grid_data' = update_table(req.table, req.selected)
    /\ pending' = pending \cup Triggers("update_table")
    /\ UNCHANGED <<selected_signal, table_store, annotation_store,
                   history_store, grid_prev>>

AnswerSyncTableDeletion(req) ==
    /\ req.callback = "sync_table_deletion"
    /\ table_store' = sync_table_deletion(req.curr, req.prev, req.selected,
                                          req.table)
    /\ pending' = pending \cup Triggers("sync_table_deletion")
    /\ UNCHANGED <<selected_signal, annotation_store, history_store,
                   grid_data, grid_prev>>

AnswerManageHistory(req) ==
    LET r == manage_history(req.table, req.annot, req.triggered_id,
                            req.history)
    IN  /\ req.callback = "manage_history"
        /\ Len(WorkingHistory(r.history).past) <= MaxThreadHist
        /\ history_store' = r.history
        /\ table_store' = r.table
        /\ annotation_store' = r.annot
        /\ pending' = pending \cup Triggers("manage_history")
        /\ UNCHANGED <<selected_signal, grid_data, grid_prev>>

\* An answer arrives: the browser writes its Outputs.
Answer(req) ==
    /\ req \in inflight
    /\ inflight' = inflight \ {req}
    /\ ctx' = Ctx(req.callback, req.triggered_id, req.click, "answer")
    /\ \/ AnswerHandleAnnotation(req)
       \/ AnswerUpdateTable(req)
       \/ AnswerSyncTableDeletion(req)
       \/ AnswerManageHistory(req)

\* What the threaded steps leave alone.
ThreadFrame ==
    UNCHANGED <<rt, download, figure, peak_editor, peak_table,
                done_signals, dropdown_options>>

NextThreads ==
    \/ \E n \in Signals :
          selected_signal = None /\ SelectSignal(Some(n))
            /\ UNCHANGED <<rt, desk>>
    \/ DispatchAnnotation("add-complex-btn", None) /\ ThreadFrame
    \/ \E p \in ThreadClicks :
          DispatchAnnotation("main-plot", Some(p)) /\ ThreadFrame
    \/ \E c \in pending : DispatchTriggered(c) /\ ThreadFrame
    \/ \E req \in inflight : Answer(req) /\ ThreadFrame

SpecThreads == Init /\ [][NextThreads]_vars

-----------------------------------------------------------------------------
(* toggle_done: the Done button and the marks on the dropdown's labels.     *)

\* The piece put before the label of a done recording: the check-mark glyph
\* and a space.
CheckMark == "[done] "

\* label_text.startswith(mark)
StartsWithMark(label) == Len(label) > 0 /\ label[1] = CheckMark

\* label_text.replace(mark, "", 1): the first mark of the label is removed.
RemoveFirstMark(label) ==
    LET at == {p \in 1 .. Len(label) : label[p] = CheckMark}
    IN  IF at = {} THEN label
        ELSE RemoveAt(label, CHOOSE p \in at : \A q \in at : p <= q)

\* value in done_list
InList(value, list) == \E p \in 1 .. Len(list) : list[p] = value

\* done_list.remove(value): the first occurrence is removed.
ListRemove(list, value) ==
    LET at == {p \in 1 .. Len(list) : list[p] = value}
    IN  RemoveAt(list, CHOOSE p \in at : \A q \in at : p <= q)

\* A relabelling that marks a done recording whatever its label shows.
RelabelMarksAgain(opt, done_list) ==
    IF InList(opt.value, done_list) THEN <<CheckMark>> \o opt.label
    ELSE IF StartsWithMark(opt.label) THEN RemoveFirstMark(opt.label)
    ELSE opt.label

\* The label of an option for the new done list.
Relabel(opt, done_list) ==
    IF InList(opt.value, done_list) /\ ~StartsWithMark(opt.label)
    THEN <<CheckMark>> \o opt.label
    ELSE IF ~InList(opt.value, done_list) /\ StartsWithMark(opt.label)
    THEN RemoveFirstMark(opt.label)
    ELSE opt.label

toggle_done(n_clicks, selected_value, done_list, current_options) ==
    IF selected_value = None
    THEN [done |-> done_list, options |-> current_options]
    ELSE LET new_done == IF InList(selected_value[1], done_list)
                         THEN ListRemove(done_list, selected_value[1])
                         ELSE Append(done_list, selected_value[1])
         IN  [done    |-> new_done,
              options |-> [p \in 1 .. Len(current_options) |->
                             [label |-> Relabel(current_options[p], new_done),
                              value |-> current_options[p].value]]]

\* The Done button: no callback has the done store or the options as Input.
PressDone ==
    LET r == toggle_done(1, selected_signal, done_signals, dropdown_options)
    IN  /\ done_signals' = r.done
        /\ dropdown_options' = r.options
        /\ ctx' = Ctx("toggle_done", "done-btn", None,
                      IF selected_signal = None THEN "no_signal" ELSE "toggle")
        /\ UNCHANGED <<selected_signal, table_store, annotation_store,
                       history_store, grid_data, grid_prev, pending, rt,
                       download, figure, inflight, peak_editor, peak_table>>

ListedSelections == {None} \cup {Some(n) : n \in ListedSignals}

NextDone ==
    \/ \E v \in ListedSelections : SelectSignal(v) /\ UNCHANGED <<rt, desk>>
    \/ PressDone

SpecDone == Init /\ [][NextDone]_vars

-----------------------------------------------------------------------------
(* The chain of a user event.  rt observes it: the event (the ctx of its    *)
(* step), the stores and the history it found, the history it left, and    *)
(* the frames                                                               *)
(* manage_history has pushed onto past since.                               *)

\* Frames the history of an observed session may hold.
MaxChain == 4

\* The user event of this step starts a chain.
ChainBegin ==
    rt' = [phase   |-> "chain",
           event   |-> ctx',
           table   |-> table_store,
           annot   |-> annotation_store,
           before  |-> history_store,
           history |-> history_store',
           pushes  |-> 0]

\* A callback of the chain has run.
ChainStep ==
    rt' = IF rt.phase = "chain" /\ ctx'.callback = "manage_history"
             /\ ctx'.branch = "record"
          THEN [rt EXCEPT !.pushes = @ + 1]
          ELSE rt

NextChain ==
    \/ \E v \in Selections : SelectSignal(v) /\ ChainBegin /\ UNCHANGED desk
    \/ AddComplexUpTo(MaxChain) /\ ChainBegin /\ UNCHANGED desk
    \/ \E p \in ClickPoints :
          PlotClickUpTo(MaxChain, p) /\ ChainBegin /\ UNCHANGED desk
    \/ HistLen <= MaxChain /\ Undo /\ ChainBegin /\ UNCHANGED desk
    \/ HistLen <= MaxChain /\ Redo /\ ChainBegin /\ UNCHANGED desk
    \/ \E p \in 1 .. Len(grid_data) :
          GridDeleteRowUpTo(MaxChain, p) /\ ChainBegin /\ UNCHANGED desk
    \/ \E p \in 1 .. Len(grid_data) : \E l \in ConfLabels :
          GridEditCellUpTo(MaxChain, p, l) /\ ChainBegin /\ UNCHANGED desk
    \/ RunUpdateTable /\ ChainStep /\ UNCHANGED desk
    \/ RunSyncTableDeletion /\ ChainStep /\ UNCHANGED desk
    \/ RunManageHistory /\ ChainStep /\ UNCHANGED desk

SpecChain == Init /\ [][NextChain]_vars

\* Dash runs every callback it has triggered.
FairChain ==
    /\ SpecChain
    /\ WF_vars(RunUpdateTable /\ ChainStep /\ UNCHANGED desk)
    /\ WF_vars(RunSyncTableDeletion /\ ChainStep /\ UNCHANGED desk)
    /\ WF_vars(RunManageHistory /\ ChainStep /\ UNCHANGED desk)

-----------------------------------------------------------------------------
(* Claims *)

History == WorkingHistory(history_store)

\* C1: a round trip over a session of commits (Undo until past is empty, then
\* Redo until future is empty, each with the callbacks it triggers) ends with
\* the table store and the annotation store it started from.
RoundTripRestores ==
    rt.phase = "done" =>
        /\ table_store = rt.table
        /\ annotation_store = rt.annot

\* The round trip of C1 where it does come back: no recording is selected
\* while Undo and Redo are pressed.
RoundTripDeselected ==
    /\ rt.phase = "done"
    /\ selected_signal = None
    /\ table_store = rt.table
    /\ annotation_store = rt.annot

\* A run of manage_history that a store write triggered.
StoreTriggered ==
    /\ ctx'.callback = "manage_history"
    /\ ctx'.triggered_id = "table-store"

\* C2: manage_history, triggered by a store write whose snapshot differs from
\* present, appends the old present to past, makes the snapshot the present
\* and empties future.
RecordPushesPresent ==
    [][ (StoreTriggered /\ Frame(table_store, annotation_store) # History.present) =>
          /\ History'.past = Append(History.past, History.present)
          /\ History'.present = Frame(table_store, annotation_store)
          /\ History'.future = <<>>
      ]_vars

\* A new mutation has been recorded on top of earlier frames.
RecordedOnTop ==
    /\ ctx.callback = "manage_history"
    /\ ctx.branch = "record"
    /\ Len(History.past) >= 2
    /\ History.future = <<>>

\* C3: manage_history, triggered by a store write whose snapshot is the
\* present, leaves past, present and future as they are and writes back the
\* values the table store and the annotation store already hold.
SameSnapshotIsNoOp ==
    [][ (StoreTriggered /\ Frame(table_store, annotation_store) = History.present) =>
          /\ history_store' = history_store
          /\ table_store' = table_store
          /\ annotation_store' = annotation_store
      ]_vars

\* manage_history has run on a snapshot equal to a present with frames on
\* both sides of it.
SameSnapshotSeen ==
    /\ ctx.callback = "manage_history"
    /\ ctx.branch = "no_change"
    /\ Len(History.past) > 0

\* C4: for a history with a non-empty past, Undo and then Redo give back the
\* same past, present and future, and the Redo writes the present that held
\* before the Undo to the stores.
UndoThenRedoRestores ==
    LET u == manage_history(table_store, annotation_store, "undo-btn",
                            history_store)
        r == manage_history(u.table, u.annot, "redo-btn", u.history)
    IN  Len(History.past) > 0 =>
          /\ r.history = Some(History)
          /\ r.table = History.present.table
          /\ r.annot = History.present.annot

\* Redo has just put back a frame on top of older ones.
RedoneOnTop ==
    /\ ctx.callback = "manage_history"
    /\ ctx.branch = "redo"
    /\ Len(History.past) >= 2

\* C5: Undo with an empty past and Redo with an empty future change neither
\* the history nor the table store nor the annotation store, the first press
\* of a session included.
EmptyUndoRedoIsNoOp ==
    [][ (/\ ctx'.callback = "manage_history"
         /\ ctx'.triggered_id \in {"undo-btn", "redo-btn"}
         /\ ctx'.branch \in {"undo_no_change", "redo_no_change"}) =>
          /\ History' = History
          /\ table_store' = table_store
          /\ annotation_store' = annotation_store
      ]_vars

\* A plot click that handle_annotation takes as a mark: a recording is
\* selected and the editor is active.
MarkClick ==
    /\ ctx'.callback = "handle_annotation"
    /\ ctx'.triggered_id = "main-plot"
    /\ selected_signal # None
    /\ ModeActive(annotation_store)

\* The rows stored for recording n (none when it has no key).
Rows(table, n) == update_table(table, Some(n))

\* The sample offset and the amplitude of the click of this step.
ClickOffset == SampleIndex(selected_signal[1], ctx'.click[1].x)
ClickAmp == ctx'.click[1].y

\* C6: with a recording selected and the editor active, the clicks go to i, j
\* and k in that order; the third appends one row to the selected recording
\* with i, j, k the offsets of the three clicks, width = k - i and
\* height = amplitude of the second click - amplitude of the third.
ClicksFillIJK ==
    [][ MarkClick =>
          LET a   == annotation_store
              b   == annotation_store'
              sel == selected_signal[1]
          IN  /\ a.clickCount = 0 =>
                   /\ b.clickCount = 1
                   /\ b.i_samp = Some(ClickOffset) /\ b.i_amp = Some(ClickAmp)
                   /\ Rows(table_store', sel) = Rows(table_store, sel)
              /\ a.clickCount = 1 =>
                   /\ b.clickCount = 2
                   /\ b.i_samp = a.i_samp /\ b.i_amp = a.i_amp
                   /\ b.j_samp = Some(ClickOffset) /\ b.j_amp = Some(ClickAmp)
                   /\ Rows(table_store', sel) = Rows(table_store, sel)
              /\ a.clickCount = 2 =>
                   Rows(table_store', sel) =
                     Append(Rows(table_store, sel),
                            [i |-> a.i_samp[1], j |-> a.j_samp[1],
                             k |-> ClickOffset,
                             width  |-> ClickOffset - a.i_samp[1],
                             height |-> a.j_amp[1] - ClickAmp,
                             i_conf |-> "", j_conf |-> "", k_conf |-> ""])
      ]_vars

\* A third click has committed a row whose three marks differ.
RowCommitted ==
    /\ ctx.callback = "handle_annotation"
    /\ ctx.branch = "commit"
    /\ \E n \in Signals : \E p \in 1 .. Len(Rows(table_store, n)) :
         LET row == Rows(table_store, n)[p]
         IN  row.width # 0 /\ row.height # 0 /\ row.i # row.j

\* clickCount of an editor state (0 when it has none).
MarksPlaced(a) == IF "clickCount" \in DOMAIN a THEN a.clickCount ELSE 0

\* Rows stored over all recordings.
RECURSIVE SumRows(_, _)
SumRows(table, keys) ==
    IF keys = {} THEN 0
    ELSE LET k == CHOOSE x \in keys : TRUE
         IN  Len(table[k]) + SumRows(table, keys \ {k})

RowCount(table) == SumRows(table, DOMAIN table)

\* The editor holds nothing: mode inactive, zero marks, no partial mark.
Idle(a) == a = ResetAnnotation(FALSE)

\* C7: no state holds three marks; the step that places the third mark
\* appends one row and leaves the editor Idle, and handle_annotation adds a
\* row in no other step.
ThirdMarkCommits ==
    [][ /\ MarksPlaced(annotation_store') <= 2
        /\ ("k_samp" \in DOMAIN annotation_store' =>
              annotation_store'.k_samp = None)
        /\ (MarkClick /\ annotation_store.clickCount = 2) =>
              /\ RowCount(table_store') = RowCount(table_store) + 1
              /\ Idle(annotation_store')
        /\ (/\ ctx'.callback = "handle_annotation"
            /\ RowCount(table_store') # RowCount(table_store)) =>
              /\ MarkClick /\ annotation_store.clickCount = 2
              /\ Idle(annotation_store')
      ]_vars

\* The third mark has been placed: a row is stored and the editor is Idle.
ThirdMarkPlaced ==
    /\ ctx.callback = "handle_annotation"
    /\ ctx.branch = "commit"
    /\ RowCount(table_store) = 1
    /\ Idle(annotation_store)

\* C8: with no recording selected, Add Complex, a plot click and a grid
\* change reaching sync_table_deletion leave the editor state and the table
\* as they are, and raise nothing.
NoSignalIsNoOp ==
    [][ (/\ selected_signal = None
         /\ ctx'.callback \in {"handle_annotation", "sync_table_deletion"}) =>
          /\ annotation_store' = annotation_store
          /\ table_store' = table_store
          /\ ctx'.branch = "no_signal"
      ]_vars

\* A row was deleted in the grid with no recording selected: the grid has
\* lost it, the table has not.
GridEditWithoutSignal ==
    /\ selected_signal = None
    /\ ctx.callback = "sync_table_deletion"
    /\ grid_prev # None
    /\ Len(grid_prev[1]) > Len(grid_data)
    /\ RowCount(table_store) > 0

\* C9: a plot click with a recording selected and the editor inactive changes
\* neither the editor state nor the table, its keys included.
IdleClickIsNoOp ==
    [][ (/\ ctx'.callback = "handle_annotation"
         /\ ctx'.triggered_id = "main-plot"
         /\ selected_signal # None
         /\ ~ModeActive(annotation_store)) =>
          /\ annotation_store' = annotation_store
          /\ table_store' = table_store
      ]_vars

\* C10: with a recording selected, Add Complex leaves the editor active with
\* zero marks and no partial mark, whatever it held, and the rows of every
\* recording as they were.
AddComplexRestarts ==
    [][ (/\ ctx'.callback = "handle_annotation"
         /\ ctx'.triggered_id = "add-complex-btn"
         /\ selected_signal # None) =>
          /\ annotation_store' = ResetAnnotation(TRUE)
          /\ \A n \in Signals : Rows(table_store', n) = Rows(table_store, n)
      ]_vars

\* Add Complex has been pressed while two marks were placed (the present of
\* the history still shows them).
RestartedWithTwoMarks ==
    /\ ctx.callback = "handle_annotation"
    /\ ctx.branch = "add_complex"
    /\ annotation_store = ResetAnnotation(TRUE)
    /\ MarksPlaced(History.present.annot) = 2

\* A run of sync_table_deletion, with a recording selected, on a grid that
\* differs from data_previous.
GridChangeSynced ==
    /\ ctx'.callback = "sync_table_deletion"
    /\ selected_signal # None
    /\ grid_prev' # Some(grid_data')

\* C11: a grid change reaching sync_table_deletion with a recording selected
\* makes the stored sequence of that recording the grid's rows and leaves
\* every other recording's sequence as it is.
GridReplacesSelected ==
    [][ GridChangeSynced =>
          LET key == Str(selected_signal[1])
          IN  /\ DOMAIN table_store' = DOMAIN table_store \cup {key}
              /\ table_store'[key] = grid_data'
              /\ \A k \in DOMAIN table_store \ {key} :
                   table_store'[k] = table_store[k]
      ]_vars

\* An edit of the grid was stored for recording 1 while recording 0 keeps a
\* row.
GridStoredBesideRows ==
    /\ ctx.callback = "sync_table_deletion"
    /\ ctx.branch = "replace"
    /\ grid_prev # None
    /\ selected_signal = Some(1)
    /\ Len(Rows(table_store, 1)) > 0
    /\ Rows(table_store, 1) = grid_data
    /\ Len(Rows(table_store, 0)) > 0
    /\ Rows(table_store, 0) # grid_data

\* C12: sync_table_deletion takes its overwrite only when the grid's rows
\* are strictly fewer than those of data_previous.
OverwriteOnlyOnDeletion ==
    [][ (/\ ctx'.callback = "sync_table_deletion"
         /\ ctx'.branch = "replace"
         /\ grid_prev' # None) =>
          Len(grid_data') < Len(grid_prev'[1])
      ]_vars

\* C13: when no triggered callback is left to run and a recording is
\* selected, the grid shows the table's sequence of that recording.
GridShowsSelected ==
    (pending = {} /\ selected_signal # None) =>
        grid_data = Rows(table_store, selected_signal[1])

\* C14: a change of the selection leaves the editor state, its marks and
\* click count included, and the table as they are; the third click appends
\* the row, with the i and j marks already placed, to the recording selected
\* at that click and leaves the rows of every other recording as they are.
SwitchKeepsMarks ==
    [][ /\ selected_signal' # selected_signal =>
              /\ annotation_store' = annotation_store
              /\ table_store' = table_store
        /\ (MarkClick /\ annotation_store.clickCount = 2) =>
              LET sel == selected_signal[1]
                  new == Rows(table_store', sel)
              IN  /\ Len(new) = Len(Rows(table_store, sel)) + 1
                  /\ Front(new) = Rows(table_store, sel)
                  /\ Last(new).i = annotation_store.i_samp[1]
                  /\ Last(new).j = annotation_store.j_samp[1]
                  /\ Last(new).k = ClickOffset
                  /\ \A n \in SessionSignals \ {sel} :
                       Rows(table_store', n) = Rows(table_store, n)
      ]_vars

\* Recording 1 holds a row whose i mark is an offset no click on recording 1
\* gives: the mark was placed while recording 0 was selected.
RowAcrossSwitch ==
    /\ ctx.callback = "handle_annotation"
    /\ ctx.branch = "commit"
    /\ selected_signal = Some(1)
    /\ \E p \in 1 .. Len(Rows(table_store, 1)) :
         Rows(table_store, 1)[p].i \notin
           { SampleIndex(1, c.x) : c \in ClickPoints }

\* s is a prefix of t.
IsPrefix(s, t) == Len(s) <= Len(t) /\ SubSeq(t, 1, Len(s)) = s

\* C19: in a run of commits without grid edits, Undo or Redo, every step
\* leaves the sequence each recording had as a prefix of the one it has
\* afterwards, and a commit adds its row at the end.
CommitsAppendInOrder ==
    [][ \A n \in Signals :
          /\ IsPrefix(Rows(table_store, n), Rows(table_store', n))
          /\ Len(Rows(table_store', n)) <= Len(Rows(table_store, n)) + 1
          /\ Len(Rows(table_store', n)) > Len(Rows(table_store, n)) =>
               /\ MarkClick
               /\ Last(Rows(table_store', n)).k = ClickOffset
      ]_vars

\* Two different rows committed one after the other: the history still holds
\* the table with the first one alone.
TwoRowsInOrder ==
    /\ ctx.callback = "handle_annotation"
    /\ ctx.branch = "commit"
    /\ Len(Rows(table_store, 0)) = 2
    /\ Rows(table_store, 0)[1] # Rows(table_store, 0)[2]
    /\ \E f \in 1 .. Len(History.past) :
         Rows(History.past[f].table, 0) = <<Rows(table_store, 0)[1]>>

ConfidenceGatesCommit ==
    [][ (/\ ctx'.callback = "confirm_confidence"
         /\ peak_editor.state = "PendingConfidence") =>
          IF ctx'.label = None \/ ctx'.label = Some("")
          THEN /\ peak_editor' = peak_editor
               /\ peak_table' = peak_table
          ELSE /\ peak_table' =
                    Append(peak_table,
                           [index      |-> peak_editor.mark[1].index,
                            amplitude  |-> peak_editor.mark[1].amplitude,
                            confidence |-> ctx'.label])
               /\ peak_editor' = PeakIdle
      ]_vars

\* A second mark was confirmed with "Sure" after a first row.
PeakConfirmedSure ==
    /\ ctx.callback = "confirm_confidence"
    /\ ctx.label = Some("Sure")
    /\ Len(peak_table) = 2
    /\ peak_editor = PeakIdle

\* C17: two presses of the annotation-mode button in a row leave the editor
\* in the variant it had before the first: mode off stays off, mode on
\* stays on.
TwoPressesRestoreMode ==
    LET once  == handle_annotation("add-complex-btn", None, selected_signal,
                                   annotation_store, table_store)
        twice == handle_annotation("add-complex-btn", None, selected_signal,
                                   once.annot, once.table)
    IN  ModeActive(twice.annot) = ModeActive(annotation_store)

\* C18: with the callbacks answered in any order, a row the table store
\* holds stays in it, at its place, in every later state (the user deletes
\* no row and presses no Undo).
CommittedRowStays ==
    [][ \A n \in Signals : \A p \in 1 .. Len(Rows(table_store, n)) :
          /\ p <= Len(Rows(table_store', n))
          /\ Rows(table_store', n)[p] = Rows(table_store, n)[p]
      ]_vars

\* C20: a render pass, whether it returns a figure or raises, leaves the
\* table store, the annotation store, the history and the grid as they
\* were; a render that raises leaves the figure as it was too.
Rendered == ctx'.callback = "update_plot" /\ ctx'.triggered_id = "filter-inputs"

RenderKeepsAnnotations ==
    [][ Rendered =>
          /\ table_store' = table_store
          /\ annotation_store' = annotation_store
          /\ history_store' = history_store
          /\ grid_data' = grid_data /\ grid_prev' = grid_prev
          /\ selected_signal' = selected_signal
          /\ (ctx'.branch = "raised" => figure' = figure)
      ]_vars

\* A render has raised over a committed row, after one that drew a figure.
RenderFailedOverRows ==
    /\ ctx.callback = "update_plot" /\ ctx.branch = "raised"
    /\ \E key \in DOMAIN table_store : Len(table_store[key]) > 0
    /\ figure # EmptyDict /\ ~figure.blank

\* The user event that started the chain under way.
ChainOf(callback, branches) ==
    /\ rt.phase = "chain"
    /\ rt.event.callback = callback
    /\ rt.event.branch \in branches

\* C21: when the chain of an Undo with a non-empty past has settled,
\* manage_history has pushed no frame, past has not grown and future is the
\* one the Undo left, the undone frame on top.
UndoChainKeepsRedo ==
    (ChainOf("manage_history", {"undo"}) /\ Settled) =>
        /\ rt.pushes = 0
        /\ Len(History.past) <= Len(rt.history[1].past)
        /\ History.future = rt.history[1].future

\* C22: the chain of a user event reaches a state where no callback would
\* change a value, and manage_history pushes at most one frame over it.
ChainSettlesWithOnePush ==
    /\ (rt.phase = "chain" /\ ~Quiescent) ~> Quiescent
    /\ [](rt.phase = "chain" => rt.pushes <= 1)

\* The chain of a grid deletion has settled with its one frame pushed.
DeletionChainSettled ==
    /\ ChainOf("sync_table_deletion", {"replace"})
    /\ Settled
    /\ rt.pushes = 1
    /\ Len(grid_data) < Len(rt.table["0"])

\* The frames of a history in the order of the timeline: past from the
\* oldest, present, then future from its top (the frame undone last) down.
Reverse(s) == [p \in 1 .. Len(s) |-> s[Len(s) + 1 - p]]

Timeline(h) == h.past \o <<h.present>> \o Reverse(h.future)

\* C23: a press of Undo or Redo leaves the timeline of the history as it
\* was, and with it len(past) + len(future); only the place of present in
\* it moves.
CursorMovesOnly ==
    [][ (/\ ctx'.callback = "manage_history"
         /\ ctx'.triggered_id \in {"undo-btn", "redo-btn"}) =>
          /\ Timeline(History') = Timeline(History)
          /\ Len(History'.past) + Len(History'.future)
               = Len(History.past) + Len(History.future)
      ]_vars

\* Redo has taken the top of a future that held two frames.
RedoneFromTwo ==
    /\ ctx.callback = "manage_history"
    /\ ctx.branch = "redo"
    /\ Len(History.future) >= 1
    /\ Len(History.past) >= 2

\* The chain under way is that of a mutation by the editor or the grid,
\* made after manage_history had run, and manage_history has recorded it.
MutationRecorded ==
    /\ rt.phase = "chain"
    /\ rt.event.callback \in {"handle_annotation", "sync_table_deletion"}
    /\ rt.before # None
    /\ rt.pushes = 1

UndoTakesBackOneClick ==
    (ChainOf("handle_annotation", {"mark", "commit"}) /\ Settled) =>
        LET u == manage_history(table_store, annotation_store, "undo-btn",
                                history_store)
            n == selected_signal[1]
        IN  /\ rt.pushes = 1
            /\ u.annot = rt.annot
            /\ ModeActive(u.annot)
            /\ IF rt.event.branch = "mark"
               THEN /\ u.annot.clickCount = annotation_store.clickCount - 1
                    /\ u.annot.i_samp \in {None, annotation_store.i_samp}
                    /\ Rows(u.table, n) = Rows(table_store, n)
               ELSE /\ u.annot.clickCount = 2
                    /\ u.annot.i_samp # None /\ u.annot.j_samp # None
                    /\ Rows(u.table, n) = Front(Rows(table_store, n))

\* The chain of a committing click has settled.
CommitChainSettled ==
    /\ ChainOf("handle_annotation", {"commit"})
    /\ Settled
    /\ rt.pushes = 1
    /\ Len(Rows(table_store, 0)) = 1

\* annot_state.get(key) is not None
Placed(a, key) == key \in DOMAIN a /\ a[key] # None

\* An editor state as handle_annotation expects it.
WellFormed(a) ==
    IF ModeActive(a)
    THEN /\ "clickCount" \in DOMAIN a
         /\ a.clickCount \in {0, 1, 2}
         /\ (Placed(a, "i_samp") /\ Placed(a, "i_amp")) <=> a.clickCount >= 1
         /\ (Placed(a, "j_samp") /\ Placed(a, "j_amp")) <=> a.clickCount = 2
         /\ ~Placed(a, "k_samp") /\ ~Placed(a, "k_amp")
    ELSE \A key \in {"i_samp", "i_amp", "j_samp", "j_amp", "k_samp", "k_amp"} :
           ~Placed(a, key)

\* C26: the annotation store always holds a well-formed editor state (the
\* layout's value and the values Undo and Redo write included): active with
\* clickCount 0, 1 or 2, i placed exactly from 1 on, j exactly at 2, k
\* never; inactive with no mark placed.  No plot click raises on a missing
\* clickCount.
EditorWellFormed ==
    /\ WellFormed(annotation_store)
    /\ ctx.branch # "KeyError"

\* Undo has put back an active editor holding the i and j marks.
TwoMarksRestored ==
    /\ ctx.callback = "manage_history"
    /\ ctx.branch = "undo"
    /\ ModeActive(annotation_store)
    /\ annotation_store.clickCount = 2
    /\ Placed(annotation_store, "j_samp")

\* C27: without Undo and Redo, a recording gains a row only by a commit
\* made while it is selected; no grid edit or deletion puts a row under a
\* recording.
RowsEnterByCommit ==
    [][ \A n \in SessionSignals :
          Len(Rows(table_store', n)) > Len(Rows(table_store, n)) =>
            /\ ctx'.callback = "handle_annotation"
            /\ ctx'.branch = "commit"
            /\ selected_signal = Some(n)
      ]_vars

\* The recordings of the done list.
DoneSet(list) == {list[p] : p \in 1 .. Len(list)}

\* Every label carries the mark exactly when its recording is done, and at
\* most once.
LabelsShowDone(options, list) ==
    \A p \in 1 .. Len(options) :
      /\ StartsWithMark(options[p].label) <=> options[p].value \in DoneSet(list)
      /\ Cardinality({q \in 1 .. Len(options[p].label) :
                        options[p].label[q] = CheckMark}) <= 1

\* C28: before and after every step the labels carry the mark exactly for
\* the recordings of the done list, once; a press of Done with no recording
\* selected changes neither the list nor the labels; and after a press with
\* a recording selected a second press would give back the done membership
\* and the labels the first one found.
DoneMarksFollowList ==
    [][ /\ LabelsShowDone(dropdown_options, done_signals)
        /\ LabelsShowDone(dropdown_options', done_signals')
        /\ ctx'.callback = "toggle_done" =>
             IF selected_signal = None
             THEN done_signals' = done_signals
                    /\ dropdown_options' = dropdown_options
             ELSE LET twice == toggle_done(2, selected_signal, done_signals',
                                           dropdown_options')
                  IN  /\ DoneSet(done_signals') # DoneSet(done_signals)
                      /\ DoneSet(twice.done) = DoneSet(done_signals)
                      /\ twice.options = dropdown_options
      ]_vars

\* Done was pressed on a recording while another one was done already.
SecondRecordingDone ==
    /\ ctx.callback = "toggle_done"
    /\ ctx.branch = "toggle"
    /\ Len(done_signals) = 2
    /\ StartsWithMark(dropdown_options[selected_signal[1] + 1].label)

====
